---- MODULE Spec2Model ----
(***************************************************************************)
(* A model of node-ogg's stream wrappers: the Decoder (a Writable that     *)
(* scans pages out of the written bytes and routes them to one             *)
(* DecoderStream per serial number) and the Encoder (a Readable that       *)
(* gathers the pages its EncoderStreams emit).  The native libogg binding  *)
(* is not part of the sources; its calls are modelled from the container   *)
(* specification and from the way the wrappers read their results.         *)
(***************************************************************************)
EXTENDS Integers, Sequences, FiniteSets, TLC

\* ------------------------------------------------------------------ bounds

\* Units (pages or garbage runs) written to the Decoder over a whole run.
MaxUnits == 2

\* Serial numbers of the logical streams.
Serials == {1, 2}
\* Packets a page announces (ogg_page_packets).
PacketCounts == {0, 1, 2}

\* JavaScript's null, as assigned to page.serialno and page.packets.
Null == -1

\* --------------------------------------------------------- physical stream

\* A run of bytes that is not a page: the scanner skips it.
Garbage ==
  [kind |-> "garbage", serialno |-> 0, packets |-> 0, eos |-> FALSE,
   version |-> 0, gap |-> FALSE, cont |-> FALSE]

\* A page whose stream structure version is not 0: its checksum is right, so
\* the scanner returns it, and ogg_stream_pagein refuses it.
BadPages ==
  { [kind |-> "page", serialno |-> s, packets |-> 1, eos |-> FALSE,
     version |-> 1, gap |-> FALSE, cont |-> FALSE] : s \in Serials }

\* Well-formed pages.  gap: the page sequence number skips one; cont: its first
\* packet continues one begun on the page before.  A page on which no packet
\* ends carries neither the e_o_s packet nor the end of a continued one.
GoodPages ==
  { u \in { [kind |-> "page", serialno |-> s, packets |-> n, eos |-> e,
             version |-> 0, gap |-> g[1], cont |-> g[2]] :
              s \in Serials, n \in PacketCounts, e \in BOOLEAN,
              g \in {<<FALSE, FALSE>>, <<TRUE, FALSE>>, <<TRUE, TRUE>>} } :
      u.packets = 0 => (~u.eos /\ ~u.cont) }

Units == {Garbage} \cup BadPages \cup GoodPages

\* DecoderStream objects that can come to exist.
Objs == 1..MaxUnits

VARIABLES
  written,     \* every unit the caller has made for the Decoder so far, in byte order
  chunk,       \* positions (in written) of the chunk being made or being written
  oy,          \* ogg_sync_state: positions of the units buffered, not yet scanned
  dpc,         \* where the Decoder's _write is: idle, sync_write, sync_pageout, wait_pagein
  page,        \* the OggPage object of the current _write call; handed: the position
               \* of the page it held when it was last emitted in a 'page' event
  decErrored,  \* the Writable was given an error by _write's callback
  callbacks,   \* the error given at every invocation of a _write callback
  streams,     \* Decoder._streams: serial number -> DecoderStream object (0: none)
  nextObj,     \* the next DecoderStream object to be constructed
  ds,          \* the DecoderStream objects
  ctxs,        \* the activations of DecoderStream.pagein that have not called back
  events       \* the events emitted, the packets delivered, the sync warnings met and
               \* the errors called back, in order

decVars ==
  <<written, chunk, oy, dpc, page, decErrored, callbacks, streams, nextObj,
    ds, ctxs, events>>

VARIABLES
  encStreams,  \* Encoder._streams: serial number -> EncoderStream object (0: none)
  encNextObj,  \* the next EncoderStream object to be constructed
  es,          \* the EncoderStream objects
  nextPkt,     \* the next ogg_packet a caller makes
  pub,         \* the calls made of the EncoderStreams' public write, flush and pageout
  encQueue,    \* Encoder._queue: the pages not yet output
  needsEnd,    \* Encoder._needsEnd
  encWaiting,  \* Encoder._read awaits '_page'
  encOut,      \* the pages the Encoder has pushed, in order
  encEnded     \* the Encoder has pushed null

encVars ==
  <<encStreams, encNextObj, es, nextPkt, pub, encQueue, needsEnd, encWaiting,
    encOut, encEnded>>

vars == <<decVars, encVars>>

\* ------------------------------------------------------------ native calls

NoPkt == [kind |-> "none", pos |-> 0, idx |-> 0, bos |-> FALSE, eos |-> FALSE]

\* binding.ogg_sync_write: the chunk is copied behind the buffered bytes.
SyncWrite(buf, c) == buf \o c

\* binding.ogg_sync_pageout: 1 and the page at the head of the buffer, -1 when
\* bytes had to be skipped to regain sync, 0 when more data is needed.
SyncPageout(buf) ==
  IF buf = <<>>
    THEN [rtn |-> 0, serialno |-> Null, packets |-> Null, pos |-> 0, buf |-> buf]
    ELSE LET u == written[Head(buf)] IN
         IF u.kind = "garbage"
           THEN [rtn |-> -1, serialno |-> Null, packets |-> Null, pos |-> 0,
                 buf |-> Tail(buf)]
           ELSE [rtn |-> 1, serialno |-> u.serialno, packets |-> u.packets,
                 pos |-> Head(buf), buf |-> Tail(buf)]

\* ogg_stream_init: an empty stream state.  eosOut: the e_o_s packet has been
\* handed out, the logical stream is finished.
OsInit == [q |-> <<>>, pages |-> 0, out |-> 0, eosOut |-> FALSE]

\* The packets of page u the stream state can hand out: a continued first
\* packet whose beginning was lost is dropped, though the page announces it.
Extractable(os, u) ==
  IF u.cont /\ u.gap /\ os.pages > 0 /\ u.packets > 0
    THEN u.packets - 1 ELSE u.packets

\* A stream state that takes pages after its e_o_s packet.
OsClosedNever(os) == FALSE

\* The stream state is finished: it has handed out its e_o_s packet.
OsClosed(os) == os.eosOut

\* binding.ogg_stream_pagein: 0 and the page's packets queued in the stream
\* state (behind a hole when the page sequence number skipped), or -1 for a
\* page of another stream structure version or for a finished stream.
OsPagein(os, u, pos) ==
  IF u.version # 0 \/ OsClosed(os)
    THEN [r |-> -1, os |-> os]
    ELSE LET k == Extractable(os, u)
             hole == IF u.gap /\ os.pages > 0
                       THEN << [kind |-> "hole", pos |-> pos, idx |-> 0,
                                bos |-> FALSE, eos |-> FALSE] >>
                       ELSE <<>>
             pkts == [i \in 1..k |->
                        [kind |-> "packet", pos |-> pos, idx |-> i,
                         bos |-> FALSE, eos |-> u.eos /\ i = k]]
         IN [r |-> 0,
             os |-> [os EXCEPT !.q = os.q \o hole \o pkts, !.pages = os.pages + 1]]

\* binding.ogg_stream_packetout: 1 and the next packet, -1 at a hole, 0 when the
\* stream state holds no complete packet.  b_o_s marks the stream's first packet.
OsPacketout(os) ==
  IF os.q = <<>>
    THEN [rtn |-> 0, pkt |-> NoPkt, os |-> os]
    ELSE IF Head(os.q).kind = "hole"
      THEN [rtn |-> -1, pkt |-> NoPkt, os |-> [os EXCEPT !.q = Tail(os.q)]]
      ELSE [rtn |-> 1,
            pkt |-> [Head(os.q) EXCEPT !.bos = (os.out = 0)],
            os |-> [os EXCEPT !.q = Tail(os.q), !.out = os.out + 1,
                              !.eosOut = Head(os.q).eos]]

\* ------------------------------------------------------------ DecoderStream

\* new DecoderStream(serialno)
DsNew(serialno) ==
  [serialno |-> serialno, packets |-> <<>>, os |-> OsInit, reading |-> FALSE,
   ended |-> FALSE, delivered |-> <<>>, pushedAfterEnd |-> 0]

NoStream == DsNew(Null)

Ev(e, pos, o) == [ev |-> e, pos |-> pos, o |-> o]

\* Readable.push(packet): the packet reaches the consumer and the pending
\* _read is over; after push(null) the chunk is refused.
Push(d, pkt) ==
  IF d.ended
    THEN [d EXCEPT !.reading = FALSE, !.pushedAfterEnd = d.pushedAfterEnd + 1]
    ELSE [d EXCEPT !.reading = FALSE, !.delivered = Append(d.delivered, pkt)]

PushEvents(d, o, pkt) ==
  IF d.ended THEN <<>> ELSE << Ev("packet", pkt.pos, o) >>

\* ------------------------------------------------------------------ Decoder

\* A lookup that never finds the stream: every page makes a new one.
HasStreamNever(s) == FALSE

\* Decoder._stream: `if (!stream)`.
HasStream(s) == streams[s] # 0

\* Asking for the next page as soon as the page is handed to the stream.
PcAfterForwardEager == "sync_pageout"

\* afterPageout hands the page to the stream and waits: afterPagein asks for
\* the next page.
PcAfterForward == "wait_pagein"

\* An afterPageout for which every result but 1 is an error.
PageoutBranchStrict(rtn) ==
  IF rtn = 1 THEN "page" ELSE "error"

\* The branch afterPageout takes on ogg_sync_pageout's result.
PageoutBranch(rtn) ==
  IF rtn = 1 THEN "page" ELSE IF rtn = 0 THEN "need_more" ELSE "error"

\* A retry that counts the warning as a packet read.
RetryCountLess(n) == n - 1

\* The packets left to read when afterPacketout retries after a sync warning:
\* packetout() is called again with `packets` as it was.
RetryCount(n) == n

\* An afterPacketout that emits no 'bos'.
BosEventsNone(pkt, pos, o) == <<>>

\* afterPacketout: `if (b_o_s) this.emit('bos')`, before the packet is queued.
BosEvents(pkt, pos, o) ==
  IF pkt.bos THEN << Ev("bos", pos, o) >> ELSE <<>>

\* A packet whose callback is put on the next tick as soon as it is queued.
PcAfterQueuedNow == "tick"

\* afterPacketout leaves the packet in the queue with afterPacketRead as its
\* _callback: the pagein goes on when _read has shifted the packet out.
PcAfterQueued == "queued"

\* The branch afterPacketout takes on ogg_stream_packetout's result.
PacketoutBranch(rtn) ==
  IF rtn = 1 THEN "packet" ELSE IF rtn = -1 THEN "retry" ELSE "error"

\* callback(), without an error.
NoErr == "none"

\* _write's callback, with or without an error.
Callback(err) ==
  /\ dpc' = "idle"
  /\ decErrored' = (decErrored \/ err # NoErr)
  /\ callbacks' = Append(callbacks, err)
  /\ chunk' = <<>>

\* new OggPage(): serialno and packets are 0, and no caller has it.
NewOggPage == [serialno |-> 0, packets |-> 0, handed |-> 0]

\* pageout(): the page object is reset and ogg_sync_pageout is called.
Pageout ==
  /\ page' = [page EXCEPT !.serialno = Null, !.packets = Null]
  /\ dpc' = "sync_pageout"
  /\ UNCHANGED <<decErrored, callbacks, chunk>>

\* Decoder's afterPagein(err), the callback DecoderStream.pagein is given.
AfterPagein(err) ==
  IF err # NoErr THEN Callback(err) /\ page' = page ELSE Pageout

\* The caller puts one more unit into the chunk it will write next.  A page
\* sequence number can skip only behind an earlier page of the stream, and
\* the serial numbers are named in the order of their first pages.
CallerAppend(u) ==
  /\ dpc = "idle"
  /\ ~decErrored
  /\ Len(written) < MaxUnits
  /\ u.gap => \E i \in 1..Len(written) :
                written[i].kind = "page" /\ written[i].serialno = u.serialno
  /\ u.kind = "page" =>
       \A s \in Serials :
         s < u.serialno => \E i \in 1..Len(written) :
                             written[i].kind = "page" /\ written[i].serialno = s
  /\ written' = Append(written, u)
  /\ chunk' = Append(chunk, Len(written) + 1)
  /\ UNCHANGED <<oy, dpc, page, decErrored, callbacks, streams, nextObj, ds, ctxs, events>>
  /\ UNCHANGED encVars

\* Writable calls _write(chunk) when no _write is in progress.
DecWrite ==
  /\ dpc = "idle"
  /\ ~decErrored
  /\ chunk # <<>>
  /\ page' = NewOggPage
  /\ dpc' = "sync_write"
  /\ UNCHANGED <<written, chunk, oy, decErrored, callbacks, streams, nextObj, ds, ctxs, events>>
  /\ UNCHANGED encVars

\* afterWrite(rtn)
DecAfterWrite(rtn) ==
  /\ dpc = "sync_write"
  /\ IF rtn = 0
       THEN /\ oy' = SyncWrite(oy, chunk)
            /\ Pageout
       ELSE /\ Callback("ogg_sync_write() error")
            /\ UNCHANGED <<oy, page>>
  /\ UNCHANGED <<written, streams, nextObj, ds, ctxs, events>>
  /\ UNCHANGED encVars

\* afterPageout(rtn, serialno, packets)
DecAfterPageout ==
  /\ dpc = "sync_pageout"
  /\ LET r == SyncPageout(oy)
         b == PageoutBranch(r.rtn)
     IN
     /\ oy' = r.buf
     /\ CASE b = "page" ->
               LET s == r.serialno
                   fresh == ~HasStream(s)
                   o == IF fresh THEN nextObj ELSE streams[s]
               IN
               /\ page' = [serialno |-> s, packets |-> r.packets, handed |-> r.pos]
               /\ streams' = [streams EXCEPT ![s] = o]
               /\ nextObj' = IF fresh THEN nextObj + 1 ELSE nextObj
               /\ ds' = IF fresh THEN [ds EXCEPT ![o] = DsNew(s)] ELSE ds
               /\ events' = events \o << Ev("page", r.pos, 0) >>
                              \o (IF fresh THEN << Ev("stream", r.pos, o) >> ELSE <<>>)
                              \o << Ev("pagein", r.pos, o) >>
               /\ ctxs' = ctxs \cup
                    {[o |-> o, pos |-> r.pos, packets |-> r.packets,
                      pc |-> "os_pagein", pkt |-> NoPkt]}
               /\ dpc' = PcAfterForward
               /\ UNCHANGED <<decErrored, callbacks, chunk>>
          [] b = "need_more" ->
               /\ Callback(NoErr)
               /\ UNCHANGED <<page, streams, nextObj, ds, ctxs, events>>
          [] OTHER ->
               /\ Callback("ogg_sync_pageout() error")
               /\ UNCHANGED <<page, streams, nextObj, ds, ctxs, events>>
  /\ UNCHANGED written
  /\ UNCHANGED encVars

\* packetout() of a pagein activation that has n packets left: it calls back
\* when none is left, and calls ogg_stream_packetout otherwise.
Packetout(c, n) ==
  IF n = 0
    THEN /\ ctxs' = ctxs \ {c}
         /\ AfterPagein(NoErr)
    ELSE /\ ctxs' = (ctxs \ {c}) \cup
                      {[c EXCEPT !.packets = n, !.pc = "os_packetout", !.pkt = NoPkt]}
         /\ UNCHANGED <<dpc, page, decErrored, callbacks, chunk>>

\* DecoderStream.pagein's afterPagein(r)
DsAfterPagein(c) ==
  /\ c \in ctxs
  /\ c.pc = "os_pagein"
  /\ LET r == OsPagein(ds[c.o].os, written[c.pos], c.pos) IN
     IF r.r = 0
       THEN /\ ds' = [ds EXCEPT ![c.o].os = r.os]
            /\ events' = Append(events, Ev("dspage", c.pos, c.o))
            /\ Packetout(c, c.packets)
       ELSE /\ ctxs' = ctxs \ {c}
            /\ AfterPagein("ogg_stream_pagein() error")
            /\ events' = Append(events, Ev("error", c.pos, c.o))
            /\ UNCHANGED ds
  /\ UNCHANGED <<written, oy, streams, nextObj>>
  /\ UNCHANGED encVars

\* DecoderStream.pagein's afterPacketout(rtn, ...): a packet is queued and
\* '_packet' is emitted, which a waiting _read answers at once.
DsAfterPacketout(c) ==
  /\ c \in ctxs
  /\ c.pc = "os_packetout"
  /\ LET r == OsPacketout(ds[c.o].os)
         b == PacketoutBranch(r.rtn)
         d == [ds[c.o] EXCEPT !.os = r.os]
     IN
     CASE b = "packet" ->
            /\ IF d.reading
                 THEN /\ ds' = [ds EXCEPT ![c.o] = Push(d, r.pkt)]
                      /\ events' = events
                           \o BosEvents(r.pkt, c.pos, c.o)
                           \o PushEvents(d, c.o, r.pkt)
                      /\ ctxs' = (ctxs \ {c}) \cup {[c EXCEPT !.pc = "tick", !.pkt = r.pkt]}
                 ELSE /\ ds' = [ds EXCEPT ![c.o] =
                                  [d EXCEPT !.packets = Append(d.packets, r.pkt)]]
                      /\ events' = events
                           \o BosEvents(r.pkt, c.pos, c.o)
                      /\ ctxs' = (ctxs \ {c}) \cup {[c EXCEPT !.pc = PcAfterQueued, !.pkt = r.pkt]}
            /\ UNCHANGED <<dpc, page, decErrored, callbacks, chunk>>
       [] b = "retry" ->
            /\ ds' = [ds EXCEPT ![c.o] = d]
            /\ Packetout(c, RetryCount(c.packets))
            /\ events' = Append(events, Ev("sync_warning", c.pos, c.o))
       [] OTHER ->
            /\ ds' = [ds EXCEPT ![c.o] = d]
            /\ ctxs' = ctxs \ {c}
            /\ AfterPagein("ogg_stream_packetout() error")
            /\ events' = Append(events, Ev("error", c.pos, c.o))
  /\ UNCHANGED <<written, oy, streams, nextObj>>
  /\ UNCHANGED encVars

\* Readable calls DecoderStream._read when the consumer wants a packet and no
\* _read is pending: the queued packet is pushed and its callback is put on
\* the next tick, or '_packet' is awaited.
DsRead(o) ==
  /\ ds[o].serialno # Null
  /\ ~ds[o].ended
  /\ ~ds[o].reading
  /\ IF ds[o].packets # <<>>
       THEN LET pkt == Head(ds[o].packets)
                d == [ds[o] EXCEPT !.packets = Tail(ds[o].packets)]
            IN
            /\ ds' = [ds EXCEPT ![o] = Push(d, pkt)]
            /\ events' = events \o PushEvents(d, o, pkt)
            /\ ctxs' = { IF c.o = o /\ c.pc = "queued" /\ c.pkt = pkt
                           THEN [c EXCEPT !.pc = "tick"] ELSE c : c \in ctxs }
       ELSE /\ ds' = [ds EXCEPT ![o].reading = TRUE]
            /\ UNCHANGED <<events, ctxs>>
  /\ UNCHANGED <<written, chunk, oy, dpc, page, decErrored, callbacks, streams, nextObj>>
  /\ UNCHANGED encVars

\* afterPacketRead(), run on the tick after the packet was pushed.
DsAfterPacketRead(c) ==
  /\ c \in ctxs
  /\ c.pc = "tick"
  /\ IF c.pkt.eos
       THEN /\ ds' = [ds EXCEPT ![c.o].ended = TRUE]
            /\ events' = events \o << Ev("eos", c.pos, c.o), Ev("end", c.pos, c.o) >>
       ELSE UNCHANGED <<ds, events>>
  /\ Packetout(c, c.packets - 1)
  /\ UNCHANGED <<written, oy, streams, nextObj>>
  /\ UNCHANGED encVars

DecInit ==
  /\ written = <<>>
  /\ chunk = <<>>
  /\ oy = <<>>
  /\ dpc = "idle"
  /\ page = NewOggPage
  /\ decErrored = FALSE
  /\ callbacks = <<>>
  /\ streams = [s \in Serials |-> 0]
  /\ nextObj = 1
  /\ ds = [o \in Objs |-> NoStream]
  /\ ctxs = {}
  /\ events = <<>>

DecNext ==
  \/ \E u \in Units : CallerAppend(u)
  \/ DecWrite
  \/ \E rtn \in {0, -1} : DecAfterWrite(rtn)
  \/ DecAfterPageout
  \/ \E c \in ctxs : DsAfterPagein(c)
  \/ \E c \in ctxs : DsAfterPacketout(c)
  \/ \E o \in Objs : DsRead(o)
  \/ \E c \in ctxs : DsAfterPacketRead(c)


\* ------------------------------------------------------ EncoderStream: native

\* Calls of _write made on the EncoderStreams over a whole run.
MaxOps == 2
\* Calls of the public write, flush and pageout made over a whole run.
MaxPublic == 1
\* Packets that fill a page: ogg_stream_pageout emits no page with fewer.
PageCap == 2

\* JavaScript's undefined, as a call of stream() with no serial number.
Undefined == -2

\* The EncoderStream objects Encoder.stream() constructs over a whole run.
EObjs == {1, 2}

\* (Math.random() * 1000000) | 0
RandomSerials == Serials

\* ogg_stream_init, for encoding.
EosInit == [q |-> <<>>, eosIn |-> FALSE, pageno |-> 0]

\* A stream state that takes packets after its e_o_s packet.
OsPacketinOpen(os, p) ==
  [rtn |-> 0, os |-> [os EXCEPT !.q = Append(os.q, p), !.eosIn = p.eos]]

\* binding.ogg_stream_packetin: 0 and the packet queued, or an error once an
\* e_o_s packet has been taken.
OsPacketin(os, p) ==
  IF os.eosIn
    THEN [rtn |-> -1, os |-> os]
    ELSE [rtn |-> 0, os |-> [os EXCEPT !.q = Append(os.q, p), !.eosIn = p.eos]]

\* The page made of the first k queued packets.
TakePage(os, k) ==
  [rtn |-> 1,
   pkts |-> [i \in 1..k |-> os.q[i].id],
   eos |-> \E i \in 1..k : os.q[i].eos,
   os |-> [os EXCEPT !.q = SubSeq(os.q, k + 1, Len(os.q)), !.pageno = os.pageno + 1]]

NoPage == [rtn |-> 0, pkts |-> <<>>, eos |-> FALSE]

\* binding.ogg_stream_flush: a page of whatever is queued, 0 when nothing is.
OsFlush(os) ==
  IF os.q = <<>>
    THEN [NoPage EXCEPT !.rtn = 0] @@ [os |-> os]
    ELSE TakePage(os, IF Len(os.q) < PageCap THEN Len(os.q) ELSE PageCap)

\* binding.ogg_stream_pageout: a page once a full one is queued, 0 otherwise.
OsPageout(os) ==
  IF Len(os.q) < PageCap
    THEN [NoPage EXCEPT !.rtn = 0] @@ [os |-> os]
    ELSE TakePage(os, PageCap)

\* ------------------------------------------------------------ EncoderStream

NoItem == [id |-> 0, buffer |-> FALSE, eos |-> FALSE, flush |-> FALSE, pageout |-> FALSE]

\* What _write may be given: an ogg_packet Buffer, which may carry a flush or
\* pageout property, or a plain object carrying one.
Items(id) ==
  { [id |-> id, buffer |-> b, eos |-> e, flush |-> f, pageout |-> p] :
      b \in BOOLEAN, e \in BOOLEAN, f \in BOOLEAN, p \in BOOLEAN }
    \ { it \in [id : {id}, buffer : {FALSE}, eos : BOOLEAN, flush : BOOLEAN,
                pageout : BOOLEAN] : it.eos \/ (~it.flush /\ ~it.pageout) }

\* new EncoderStream(serialno)
EsNew(serialno) ==
  [serialno |-> serialno, os |-> EosInit, pc |-> "idle", cur |-> NoItem,
   submitted |-> {}, cbs |-> <<>>, pages |-> <<>>]

NoEncStream == EsNew(Null)

\* _write's callback
EsDone(e, err) ==
  [e EXCEPT !.pc = "idle", !.cur = NoItem,
            !.cbs = Append(e.cbs, [id |-> e.cur.id, err |-> err])]

\* A checkCommand that looks at the pageout command first.
CheckCommandPageoutFirst(e) ==
  IF e.cur.pageout THEN [e EXCEPT !.pc = "pageout"]
  ELSE IF e.cur.flush THEN [e EXCEPT !.pc = "flush"]
  ELSE EsDone(e, FALSE)

\* checkCommand(), without an error
CheckCommand(e) ==
  IF e.cur.flush THEN [e EXCEPT !.pc = "flush"]
  ELSE IF e.cur.pageout THEN [e EXCEPT !.pc = "pageout"]
  ELSE EsDone(e, FALSE)

\* The stream has emitted a page flagged e_o_s.
EosEmitted(e) == \E i \in 1..Len(e.pages) : e.pages[i].eos

\* ------------------------------------------------------------------ Encoder

\* output(): the queue is concatenated, emptied and pushed.
Output(q, map) ==
  /\ encOut' = encOut \o q
  /\ encQueue' = <<>>
  /\ needsEnd' = (\A s \in Serials : map[s] = 0)
  /\ encWaiting' = FALSE

\* Encoder._onpage(stream, page, header_len, body_len, e_o_s)
OnPage(o, pg) ==
  LET map == IF pg.eos THEN [encStreams EXCEPT ![es[o].serialno] = 0] ELSE encStreams
      q == Append(encQueue, pg)
  IN
  /\ encStreams' = map
  /\ IF encWaiting
       THEN Output(q, map)
       ELSE /\ encQueue' = q
            /\ UNCHANGED <<needsEnd, encWaiting, encOut>>

\* Encoder.stream(serialno)
EncStream(arg) ==
  /\ LET s == IF arg = Undefined THEN 0 ELSE encStreams[arg] IN
     IF s # 0
       THEN UNCHANGED <<encStreams, encNextObj, es>>
       ELSE /\ encNextObj \in EObjs
            /\ \E serialno \in (IF arg = Undefined THEN RandomSerials ELSE {arg}) :
                 /\ es' = [es EXCEPT ![encNextObj] = EsNew(serialno)]
                 /\ encStreams' = [encStreams EXCEPT ![serialno] = encNextObj]
            /\ encNextObj' = encNextObj + 1
  /\ UNCHANGED <<nextPkt, pub, encQueue, needsEnd, encWaiting, encOut, encEnded>>
  /\ UNCHANGED decVars

\* The ogg_packet a caller hands to the public write of stream o.
PubPkt(o) == MaxOps + o

\* EncoderStream.write(packet, encoding, callback): the body is empty.
EsPublicWrite(o) ==
  /\ es[o].serialno # Null
  /\ pub.n < MaxPublic
  /\ pub' = [pub EXCEPT !.writes = @ \cup {[o |-> o, id |-> PubPkt(o)]}, !.n = @ + 1]
  /\ UNCHANGED <<encStreams, encNextObj, es, nextPkt, encQueue, needsEnd, encWaiting,
                 encOut, encEnded>>
  /\ UNCHANGED decVars

\* EncoderStream.flush(callback): this.write.call(this, { flush: true }, callback)
EsPublicFlush(o) ==
  /\ es[o].serialno # Null
  /\ pub.n < MaxPublic
  /\ pub' = [pub EXCEPT !.flushes = @ \cup
               {[o |-> o, id |-> es[o].os.q[i].id] : i \in 1..Len(es[o].os.q)},
                        !.n = @ + 1]
  /\ UNCHANGED <<encStreams, encNextObj, es, nextPkt, encQueue, needsEnd, encWaiting,
                 encOut, encEnded>>
  /\ UNCHANGED decVars

\* EncoderStream.pageout(callback): this.write.call(this, { pageout: true }, callback)
EsPublicPageout(o) ==
  /\ es[o].serialno # Null
  /\ pub.n < MaxPublic
  /\ pub' = [pub EXCEPT !.pageouts = @ \cup {o}, !.n = @ + 1]
  /\ UNCHANGED <<encStreams, encNextObj, es, nextPkt, encQueue, needsEnd, encWaiting,
                 encOut, encEnded>>
  /\ UNCHANGED decVars

\* EncoderStream._write(packet, encoding, callback), called on an idle stream.
EsWrite(o, it) ==
  /\ es[o].serialno # Null
  /\ es[o].pc = "idle"
  /\ nextPkt <= MaxOps
  /\ it.id = nextPkt
  /\ nextPkt' = nextPkt + 1
  /\ LET e == [es[o] EXCEPT !.cur = it] IN
     es' = [es EXCEPT ![o] = IF it.buffer THEN [e EXCEPT !.pc = "packetin"]
                                          ELSE CheckCommand(e)]
  /\ UNCHANGED <<encStreams, encNextObj, pub, encQueue, needsEnd, encWaiting, encOut, encEnded>>
  /\ UNCHANGED decVars

\* _packetin's callback on ogg_stream_packetin's result, and checkCommand.
EsAfterPacketin(o) ==
  /\ es[o].pc = "packetin"
  /\ LET r == OsPacketin(es[o].os, [id |-> es[o].cur.id, eos |-> es[o].cur.eos])
         e == [es[o] EXCEPT !.os = r.os, !.submitted = @ \cup {es[o].cur.id}]
     IN
     es' = [es EXCEPT ![o] = IF r.rtn = 0 THEN CheckCommand(e) ELSE EsDone(e, TRUE)]
  /\ UNCHANGED <<encStreams, encNextObj, nextPkt, pub, encQueue, needsEnd, encWaiting,
                 encOut, encEnded>>
  /\ UNCHANGED decVars

\* The callback of _flush and of _pageout on the native result r: the end of
\* the loop at 0, and otherwise a 'page' event and the next call.
EsPageLoop(o, r) ==
  IF r.rtn = 0
    THEN /\ es' = [es EXCEPT ![o] = EsDone(es[o], FALSE)]
         /\ UNCHANGED <<encStreams, encQueue, needsEnd, encWaiting, encOut>>
    ELSE LET pg == [o |-> o, n |-> r.os.pageno, eos |-> r.eos, pkts |-> r.pkts] IN
         /\ es' = [es EXCEPT ![o].os = r.os, ![o].pages = Append(@, pg)]
         /\ OnPage(o, pg)

\* _flush's callback
EsAfterFlush(o) ==
  /\ es[o].pc = "flush"
  /\ EsPageLoop(o, OsFlush(es[o].os))
  /\ UNCHANGED <<encNextObj, nextPkt, pub, encEnded>>
  /\ UNCHANGED decVars

\* _pageout's callback
EsAfterPageout(o) ==
  /\ es[o].pc = "pageout"
  /\ EsPageLoop(o, OsPageout(es[o].os))
  /\ UNCHANGED <<encNextObj, nextPkt, pub, encEnded>>
  /\ UNCHANGED decVars

\* Readable calls Encoder._read when the consumer wants data and no _read is
\* pending.
EncRead ==
  /\ ~encEnded
  /\ ~encWaiting
  /\ IF needsEnd
       THEN /\ encEnded' = TRUE
            /\ UNCHANGED <<encQueue, needsEnd, encWaiting, encOut>>
       ELSE /\ IF encQueue # <<>>
                 THEN Output(encQueue, encStreams)
                 ELSE /\ encWaiting' = TRUE
                      /\ UNCHANGED <<encQueue, needsEnd, encOut>>
            /\ UNCHANGED encEnded
  /\ UNCHANGED <<encStreams, encNextObj, es, nextPkt, pub>>
  /\ UNCHANGED decVars

EncInit ==
  /\ encStreams = [s \in Serials |-> 0]
  /\ encNextObj = 1
  /\ es = [o \in EObjs |-> NoEncStream]
  /\ nextPkt = 1
  /\ pub = [writes |-> {}, flushes |-> {}, pageouts |-> {}, n |-> 0]
  /\ encQueue = <<>>
  /\ needsEnd = FALSE
  /\ encWaiting = FALSE
  /\ encOut = <<>>
  /\ encEnded = FALSE

EncNext ==
  \/ \E arg \in Serials \cup {Undefined} : EncStream(arg)
  \/ \E o \in EObjs : \E it \in Items(nextPkt) : EsWrite(o, it)
  \/ \E o \in EObjs : EsAfterPacketin(o)
  \/ \E o \in EObjs : EsAfterFlush(o)
  \/ \E o \in EObjs : EsAfterPageout(o)
  \/ EncRead

\* The calls of the EncoderStreams' public methods.
PubNext ==
  \/ \E o \in EObjs : EsPublicWrite(o)
  \/ \E o \in EObjs : EsPublicFlush(o)
  \/ \E o \in EObjs : EsPublicPageout(o)

\* ----------------------------------------------------------- specifications

Init == DecInit /\ EncInit

Next == DecNext \/ EncNext \/ PubNext

\* The Decoder and the Encoder side by side.
Spec == Init /\ [][Next]_vars

\* The Decoder and its DecoderStreams alone.
DecSpec == Init /\ [][DecNext]_vars

\* The steps the event loop takes by itself: the native calls' callbacks, the
\* callbacks put on the next tick, and the _read calls made for the consumers
\* that keep asking for packets.
DecEventLoop ==
  \/ \E rtn \in {0, -1} : DecAfterWrite(rtn)
  \/ DecAfterPageout
  \/ \E c \in ctxs : DsAfterPagein(c)
  \/ \E c \in ctxs : DsAfterPacketout(c)
  \/ \E c \in ctxs : DsAfterPacketRead(c)
  \/ \E o \in Objs : DsRead(o)

\* The Decoder with an event loop that does not stop while a callback or a
\* _read is pending.
DecFairSpec == Init /\ [][DecNext]_vars /\ WF_vars(DecEventLoop)

\* The Encoder and its EncoderStreams alone.
EncSpec == Init /\ [][EncNext]_vars

\* The Encoder and its EncoderStreams, with the calls of their public methods.
PubSpec == Init /\ [][EncNext \/ PubNext]_vars

\* ------------------------------------------------------------------- claims

Range(f) == { f[i] : i \in DOMAIN f }

\* The indices of the events of kind e.
EvIdx(e) == { i \in 1..Len(events) : events[i].ev = e }

\* The packets the DecoderStream of serial number s has delivered.
Delivered(s) == IF streams[s] = 0 THEN <<>> ELSE ds[streams[s]].delivered

\* C1: a packet given to an EncoderStream's public write is submitted to the
\* native stream state and its callback is invoked: once the stream is at
\* rest, no written packet is left unsubmitted or without its callback.
C1_WrittenPacketIsSubmitted ==
  \A w \in pub.writes :
    es[w.o].pc = "idle" =>
      /\ w.id \in es[w.o].submitted
      /\ \E i \in 1..Len(es[w.o].cbs) : es[w.o].cbs[i].id = w.id

\* The callback of the public flush of stream o.
PubFlushId(o) == MaxOps + MaxOps + o

\* C2: after the public flush of an EncoderStream, once the stream is at rest,
\* no packet that was buffered when flush was called is still buffered, and
\* the callback of flush has been invoked.
C2_FlushDrainsTheStream ==
  \A f \in pub.flushes :
    es[f.o].pc = "idle" =>
      /\ \A i \in 1..Len(es[f.o].os.q) : es[f.o].os.q[i].id # f.id
      /\ \E i \in 1..Len(es[f.o].cbs) : es[f.o].cbs[i].id = PubFlushId(f.o)

\* C3: garbage met by the page scanner does not fail the write, and a valid
\* page that follows the garbage is extracted: no _write callback carries the
\* error of ogg_sync_pageout, and once every written chunk has been called
\* back with no other error, every page after a garbage run has had its
\* 'page' event.
C3_GarbageDoesNotFailWrite ==
  /\ \A i \in 1..Len(callbacks) : callbacks[i] # "ogg_sync_pageout() error"
  /\ ( /\ dpc = "idle"
       /\ chunk = <<>>
       /\ Range(callbacks) \subseteq {NoErr, "ogg_sync_pageout() error"} )
     => \A g, q \in 1..Len(written) :
          (g < q /\ written[g].kind = "garbage" /\ written[q].kind = "page")
            => \E j \in EvIdx("page") : events[j].pos = q

\* C4: an error one DecoderStream calls back while it processes a page does
\* not keep the Decoder from extracting the later pages of other serial
\* numbers: once the Decoder is at rest, every page of another serial number
\* written behind the failing page has had its 'page' event.
C4_StreamErrorIsLocal ==
  \A i \in EvIdx("error") :
    \A q \in (events[i].pos + 1)..Len(written) :
      ( /\ dpc = "idle"
        /\ q \notin Range(chunk)
        /\ written[q].kind = "page"
        /\ written[q].serialno # written[events[i].pos].serialno )
      => \E j \in EvIdx("page") : events[j].pos = q

\* C5: the Decoder has at most one page in a DecoderStream at a time and asks
\* the sync state for the next page only when no pagein is outstanding, so
\* every event and packet delivery follows those of the pages written before
\* it, and the 'page' events come in the order of the written bytes.
C5_OnePageAtATime ==
  /\ Cardinality(ctxs) <= 1
  /\ dpc = "sync_pageout" => ctxs = {}
  /\ \A i, j \in 1..Len(events) : i < j => events[i].pos <= events[j].pos
  /\ \A i, j \in EvIdx("page") : i < j => events[i].pos < events[j].pos

\* Packets of two logical streams have been delivered, one page after the other.
C5_Witness ==
  \E i, j \in EvIdx("packet") :
    i < j /\ events[i].o # events[j].o /\ events[i].pos < events[j].pos

\* The packets a stream state hands out for a page that announces n packets,
\* up to the first it cannot hand out and up to the e_o_s packet.
RECURSIVE AlonePackets(_, _, _)
AlonePackets(os, n, out) ==
  IF n = 0
    THEN [os |-> os, out |-> out, ok |-> TRUE]
    ELSE LET r == OsPacketout(os) IN
         IF r.rtn = 1
           THEN IF r.pkt.eos
                  THEN [os |-> r.os, out |-> Append(out, r.pkt), ok |-> FALSE]
                  ELSE AlonePackets(r.os, n - 1, Append(out, r.pkt))
           ELSE IF r.rtn = -1
             THEN AlonePackets(r.os, n, out)
             ELSE [os |-> r.os, out |-> out, ok |-> FALSE]

\* The packets delivered when only the pages of serial number s, from
\* position i on, are written to a Decoder.
RECURSIVE AlonePages(_, _, _, _)
AlonePages(s, i, os, out) ==
  IF i > Len(written)
    THEN out
    ELSE IF written[i].kind # "page" \/ written[i].serialno # s
      THEN AlonePages(s, i + 1, os, out)
      ELSE LET r == OsPagein(os, written[i], i) IN
           IF r.r # 0
             THEN out
             ELSE LET e == AlonePackets(r.os, written[i].packets, out) IN
                  IF e.ok THEN AlonePages(s, i + 1, e.os, e.out) ELSE e.out

Alone(s) == AlonePages(s, 1, OsInit, <<>>)

\* C6: when pages of two serial numbers are written interleaved and every
\* chunk has been called back, each DecoderStream has delivered the packets
\* it delivers when its pages alone are written.
C6_InterleavingIndependent ==
  ( /\ dpc = "idle"
    /\ chunk = <<>>
    /\ \A i \in 1..Len(written) : written[i].kind = "page"
    /\ \A i \in 1..Len(callbacks) : callbacks[i] # "ogg_sync_write() error" )
  => \A s \in Serials : Delivered(s) = Alone(s)

\* C7: every page is forwarded to the one DecoderStream registered for its
\* serial number; exactly one 'stream' event was emitted for that serial
\* number, before the forwarding, and it comes right before the forwarding of
\* the first page of the serial number and of no later one.
C7_OneStreamPerSerial ==
  \A i \in EvIdx("pagein") :
    LET s == written[events[i].pos].serialno
        made == { j \in EvIdx("stream") : ds[events[j].o].serialno = s }
        first == \A k \in EvIdx("pagein") :
                   k < i => written[events[k].pos].serialno # s
    IN
    /\ Cardinality(made) = 1
    /\ \A j \in made : j < i /\ events[j].o = events[i].o
    /\ streams[s] = events[i].o
    /\ first <=> events[i - 1].ev = "stream"

\* A second page of a serial number has been forwarded to its stream.
C7_Witness ==
  \E i, j \in EvIdx("pagein") :
    /\ i < j
    /\ events[i].o = events[j].o
    /\ written[events[i].pos].serialno = written[events[j].pos].serialno

\* C8: once a DecoderStream has delivered its e_o_s packet and ended, and the
\* Decoder is at rest, the stream is no longer in the Decoder's map.
C8_EndedStreamIsRemoved ==
  \A o \in Objs :
    (ds[o].ended /\ dpc = "idle") => streams[ds[o].serialno] # o

\* C9: an EncoderStream is out of the Encoder's map exactly when it has
\* emitted a page flagged e_o_s.
C9_RemovedExactlyAtEos ==
  \A o \in EObjs :
    es[o].serialno # Null =>
      ((encStreams[es[o].serialno] # o) <=> EosEmitted(es[o]))

\* C10: two distinct EncoderStreams returned by Encoder.stream(), neither of
\* which has emitted its e_o_s page, have different serial numbers.
C10_DistinctSerials ==
  \A a, b \in EObjs :
    ( /\ a # b
      /\ es[a].serialno # Null /\ es[b].serialno # Null
      /\ ~EosEmitted(es[a]) /\ ~EosEmitted(es[b]) )
    => es[a].serialno # es[b].serialno

\* The entries of the event log that tell the caller of trouble with the page
\* at position p: a 'discontinuity' event or an error called back.
Notices(p) ==
  { j \in 1..Len(events) :
      events[j].pos = p /\ events[j].ev \in {"discontinuity", "error"} }

\* C11: when the pages of a logical stream skip a page sequence number, the
\* caller is told of the gap exactly once: every sync warning the stream state
\* gave for a page whose pagein has called back has exactly one notice.
C11_GapIsReported ==
  \A i \in EvIdx("sync_warning") :
    (\A c \in ctxs : c.pos # events[i].pos)
      => Cardinality(Notices(events[i].pos)) = 1

\* The pages forwarded to a DecoderStream after it had ended.
PageinAfterEnd ==
  { i \in EvIdx("pagein") :
      \E j \in EvIdx("end") : j < i /\ events[j].o = events[i].o }

C14_HandedPageIsNotMutated ==
  page.handed # 0 =>
    /\ page.serialno = written[page.handed].serialno
    /\ page.packets = written[page.handed].packets

\* C15: the _write callback of a chunk is invoked at most once, and exactly
\* once when every DecoderStream keeps being read; when it is invoked no
\* pagein is outstanding and no packet extracted from the chunk's pages is
\* left untaken; and it carries no error when the scanner needs more data.
C15_WriteCallback ==
  /\ [][(callbacks' # callbacks \/ (dpc # "idle" /\ dpc' = "idle")) =>
           ( /\ dpc # "idle"
             /\ dpc' = "idle"
             /\ Len(callbacks') = Len(callbacks) + 1
             /\ SubSeq(callbacks', 1, Len(callbacks)) = callbacks )]_vars
  /\ [][(dpc = "sync_pageout" /\ SyncPageout(oy).rtn = 0) =>
           ( callbacks' \in {callbacks, Append(callbacks, NoErr)} )]_vars
  /\ [](dpc = "idle" =>
          ( /\ ctxs = {}
            /\ \A o \in Objs :
                 /\ ds[o].packets = <<>>
                 /\ \A i \in 1..Len(ds[o].os.q) : ds[o].os.q[i].kind # "packet" ))
  /\ (dpc # "idle") ~> (dpc = "idle")

\* A chunk was called back without an error after a packet of one of its pages
\* was queued, read and answered on the next tick.
C15_Witness ==
  /\ dpc = "idle"
  /\ callbacks # <<>>
  /\ callbacks[Len(callbacks)] = NoErr
  /\ EvIdx("packet") # {}

\* C16: the packets queue of a DecoderStream holds at most one packet, that of
\* the pagein in progress waiting for _read; the next packet is asked of the
\* native stream state only when the queue is empty and the callback of the
\* packet before has run.
C16_OnePacketQueued ==
  /\ \A o \in Objs :
       /\ Len(ds[o].packets) <= 1
       /\ ds[o].packets # <<>> =>
            \E c \in ctxs : c.o = o /\ c.pc = "queued" /\ ds[o].packets = << c.pkt >>
  /\ \A c \in ctxs :
       c.pc = "os_packetout" =>
         /\ ds[c.o].packets = <<>>
         /\ \A b \in ctxs : (b.o = c.o /\ b.pc \in {"queued", "tick"}) => b = c

\* The second packet of a page waits in the queue after the first was read.
C16_Witness ==
  \E o \in Objs :
    /\ Len(ds[o].packets) = 1
    /\ ds[o].delivered # <<>>
    /\ ds[o].delivered[Len(ds[o].delivered)].pos = ds[o].packets[1].pos

\* The pages the Encoder has been given, in the order it output or queued them.
EncLog == encOut \o encQueue

\* No two EncoderStreams were made with the same serial number.
NoSerialTwice ==
  \A a, b \in EObjs :
    (a # b /\ es[a].serialno # Null /\ es[b].serialno # Null)
      => es[a].serialno # es[b].serialno

\* C17: every page an EncoderStream of the Encoder emits is output exactly
\* once, in the order of the 'page' events: each 'page' event puts its page, and
\* nothing else, behind the pages output or queued so far; nothing else changes
\* that sequence; and no page is left in the queue of an Encoder that has ended
\* (stated for the runs in which no serial number was given to two streams).
C17_PagesOutputOnceInOrder ==
  /\ [][ \/ /\ EncLog' = EncLog
             /\ \A o \in EObjs : es[o].serialno # Null => es'[o].pages = es[o].pages
          \/ \E o \in EObjs :
               /\ Len(es'[o].pages) = Len(es[o].pages) + 1
               /\ EncLog' = Append(EncLog, es'[o].pages[Len(es'[o].pages)])
               /\ \A b \in EObjs \ {o} : es'[b].pages = es[b].pages
        ]_vars
  /\ []((encEnded /\ NoSerialTwice) => encQueue = <<>>)

\* C18: the Encoder pushes null only in a state where its queue is empty and
\* no EncoderStream is registered, and never while a stream it made has not
\* emitted its e_o_s page (stated for the runs in which no serial number was
\* given to two streams).
C18_EndsOnlyWhenDone ==
  [][ (~encEnded /\ encEnded' /\ NoSerialTwice) =>
        ( /\ encQueue = <<>>
          /\ \A s \in Serials : encStreams[s] = 0
          /\ \A o \in EObjs : es[o].serialno # Null => EosEmitted(es[o]) )
    ]_vars

\* The indices of the events of kind e of the DecoderStream o.
EvIdxOf(e, o) == { i \in EvIdx(e) : events[i].o = o }

\* C19: the decode events of a logical stream are ordered: the Decoder's
\* 'stream' event comes before the stream's first 'page' event, the 'page'
\* event of a page before the delivery of any of its packets, 'bos' before the
\* first delivery, and 'eos', with the end of the stream right behind it, only
\* after the e_o_s packet was delivered.
C19_DecodeEventsOrdered ==
  \A o \in Objs :
    /\ \A i \in EvIdxOf("dspage", o) : \E j \in EvIdxOf("stream", o) : j < i
    /\ \A i \in EvIdxOf("packet", o) :
         /\ \E j \in EvIdxOf("dspage", o) : j < i /\ events[j].pos = events[i].pos
         /\ \E j \in EvIdxOf("bos", o) : j < i
    /\ \A i \in EvIdxOf("eos", o) :
         /\ i < Len(events)
         /\ events[i + 1] = Ev("end", events[i].pos, o)
         /\ \E j \in EvIdxOf("packet", o) :
              /\ j < i
              /\ events[j].pos = events[i].pos
              /\ \E k \in 1..Len(ds[o].delivered) :
                   ds[o].delivered[k].eos /\ ds[o].delivered[k].pos = events[j].pos
    /\ \A i \in EvIdxOf("end", o) : i > 1 /\ events[i - 1].ev = "eos"
    /\ ds[o].ended <=> EvIdxOf("end", o) # {}

\* A stream has gone through all of its events, from 'stream' to its end.
C19_Witness ==
  \E o \in Objs :
    /\ EvIdxOf("end", o) # {}
    /\ Len(ds[o].delivered) >= 2

\* The packets of the page at position p that have been delivered.
DeliveredOf(p) == Cardinality({ i \in EvIdx("packet") : events[i].pos = p })

\* The page at position p had an error called back.
ErrorOf(p) == \E i \in EvIdx("error") : events[i].pos = p

\* The pagein of the page at position p was begun and has called back.
PageinOver(p) ==
  /\ \E i \in EvIdx("pagein") : events[i].pos = p
  /\ \A c \in ctxs : c.pos # p

\* C20: a sync warning (-1) of ogg_stream_packetout makes pagein retry without
\* counting a packet and without an error: the packets a pagein has left to
\* read are those the page announced less those delivered, whatever warnings
\* were met; an error is called back for a page only when fewer packets than
\* announced could be delivered (or the page came for a stream that had
\* ended); and a pagein that has called back without an error has delivered
\* the announced number of packets.
C20_SyncWarningIsRetried ==
  /\ \A c \in ctxs :
       c.pc # "os_pagein" =>
         c.packets = written[c.pos].packets - DeliveredOf(c.pos)
                       + (IF c.pc = "tick" THEN 1 ELSE 0)
  /\ \A i \in EvIdx("sync_warning") :
       LET p == events[i].pos IN
       /\ ErrorOf(p) => DeliveredOf(p) < written[p].packets
       /\ (PageinOver(p) /\ ~ErrorOf(p)) => DeliveredOf(p) = written[p].packets
  /\ \A p \in 1..Len(written) :
       (PageinOver(p) /\ DeliveredOf(p) = written[p].packets /\ written[p].version = 0)
         => (ErrorOf(p) => \E i \in PageinAfterEnd : events[i].pos = p)

\* A page behind a gap has had its sync warning and then delivered every
\* packet it announced, and its pagein has called back without an error.
C20_Witness ==
  \E i \in EvIdx("sync_warning") :
    LET p == events[i].pos IN
    /\ PageinOver(p)
    /\ ~ErrorOf(p)
    /\ written[p].packets >= 1
    /\ DeliveredOf(p) = written[p].packets

\* The _write callback of stream o is invoked, with or without an error, in
\* the step, and no page is emitted.
CalledBack(o, err) ==
  /\ es'[o].pc = "idle"
  /\ es'[o].cbs = Append(es[o].cbs, [id |-> es[o].cur.id, err |-> err])
  /\ es'[o].pages = es[o].pages

\* Stream o goes into the loop named by pc, and neither calls back nor emits.
Enters(o, pc) ==
  /\ es'[o].pc = pc
  /\ es'[o].cbs = es[o].cbs
  /\ es'[o].pages = es[o].pages

\* One turn of the flush or pageout loop of stream o on the native result r:
\* the callback at 0, and otherwise one 'page' event and the same loop again.
LoopTurn(o, r) ==
  IF r.rtn = 0
    THEN CalledBack(o, FALSE)
    ELSE /\ es'[o].pc = es[o].pc
         /\ es'[o].cbs = es[o].cbs
         /\ Len(es'[o].pages) = Len(es[o].pages) + 1
         /\ SubSeq(es'[o].pages, 1, Len(es[o].pages)) = es[o].pages
         /\ es'[o].pages[Len(es'[o].pages)].pkts = r.pkts

\* The _write calls that have called back, over all the streams.
RECURSIVE CallbackCount(_)
CallbackCount(S) ==
  IF S = {} THEN 0
  ELSE LET o == CHOOSE x \in S : TRUE IN Len(es[o].cbs) + CallbackCount(S \ {o})

\* C21: _write on an ogg_packet Buffer calls ogg_stream_packetin before any
\* flush or pageout; a non-zero packetin result is called back as an error and
\* neither loop runs; when flush and pageout are both asked for only the flush
\* loop runs; each loop emits one 'page' event per non-zero native result and
\* stops at the first 0; and the callback of every _write is invoked exactly
\* once.
C21_WriteSequence ==
  /\ [][ \A o \in EObjs :
           (es[o].serialno # Null /\ es'[o] # es[o]) =>
             CASE es[o].pc = "idle" ->
                    /\ es'[o].cur.id # 0
                    /\ IF es'[o].cur.buffer THEN Enters(o, "packetin")
                       ELSE IF es'[o].cur.flush THEN Enters(o, "flush")
                       ELSE es'[o].cur.pageout /\ Enters(o, "pageout")
               [] es[o].pc = "packetin" ->
                    IF OsPacketin(es[o].os, [id |-> es[o].cur.id, eos |-> es[o].cur.eos]).rtn # 0
                      THEN CalledBack(o, TRUE)
                      ELSE IF es[o].cur.flush THEN Enters(o, "flush")
                      ELSE IF es[o].cur.pageout THEN Enters(o, "pageout")
                      ELSE CalledBack(o, FALSE)
               [] es[o].pc = "flush" -> LoopTurn(o, OsFlush(es[o].os))
               [] es[o].pc = "pageout" -> LoopTurn(o, OsPageout(es[o].os))
        ]_vars
  /\ [](/\ CallbackCount(EObjs) + Cardinality({o \in EObjs : es[o].pc # "idle"})
            = nextPkt - 1
         /\ \A o, b \in EObjs :
              \A i \in 1..Len(es[o].cbs) : \A j \in 1..Len(es[b].cbs) :
                es[o].cbs[i].id = es[b].cbs[j].id => (o = b /\ i = j))

\* A _write of a packet with both commands is in its flush loop and has
\* emitted a page.
C21_Witness ==
  \E o \in EObjs :
    /\ es[o].pc = "flush"
    /\ es[o].cur.buffer /\ es[o].cur.flush /\ es[o].cur.pageout
    /\ es[o].pages # <<>>
    /\ es[o].cur.id \in Range(es[o].pages[Len(es[o].pages)].pkts)

====
